---- MODULE Spec2Model ----
(***************************************************************************)
(* Model of the chess rules engine (ChessEngine) and of the pawn's move    *)
(* composition (Pawn.possibleMoves).                                       *)
(*                                                                         *)
(* The engine's state is the live board (squaresWithPiece of the           *)
(* Chessboard it was constructed with) and currentSide.  A single caller   *)
(* drives the engine synchronously: it issues one call (move,              *)
(* possibleMoves, willBeKingChecked, isKingChecked), the call runs to      *)
(* completion, and the caller takes the result before the next call.       *)
(***************************************************************************)
EXTENDS Integers, Sequences, FiniteSets, TLC

(***************************************************************************)
(* Bounds of the model.                                                    *)
(***************************************************************************)
\* successful moves played in one behaviour
MaxMoves == 2
\* the caller's squares are taken from rows 1.. up to this number (the
\* pieces themselves move over the whole board)
MaxInputRow == 3

(***************************************************************************)
(* Types.ts / Constances.ts: sides, columns, rows, squares.                *)
(***************************************************************************)
BOARDSIZE == 8

WHITE == "WHITE"
BLACK == "BLACK"
Side == {WHITE, BLACK}

columns == <<"A", "B", "C", "D", "E", "F", "G", "H">>

\* index of a column letter in columns
columnIndex(c) == CHOOSE i \in 1..BOARDSIZE : columns[i] = c

Square(c, r) == [column |-> c, row |-> r]

AllSquares == {Square(columns[i], r) : i \in 1..BOARDSIZE, r \in 1..BOARDSIZE}

\* the value `undefined` where a Square is expected
undefinedSquare == [column |-> "undefined", row |-> 0]

\* the value `undefined` where a Piece is expected
undefinedPiece == [id |-> "undefined", side |-> "undefined", name |-> "undefined"]

isDefined(x) == x # undefinedPiece /\ x # undefinedSquare

Piece(id, side, name) == [id |-> id, side |-> side, name |-> name]

(***************************************************************************)
(* The board: squaresWithPiece maps the key `${column}${row}` of every     *)
(* occupied square to its piece.  A key is the two characters of that      *)
(* string: the column letter, then the row digit.                          *)
(***************************************************************************)
positionKey(square) == <<square.column, square.row>>

\* {column: key[0], row: Number(key[1])}
squareOfKey(key) == Square(key[1], key[2])

onPositionPiece(board, square) ==
  IF positionKey(square) \in DOMAIN board THEN board[positionKey(square)] ELSE undefinedPiece

\* relocates the piece on squareFrom to squareTo, overwriting what stood there
movePiece(board, squareFrom, squareTo) ==
  [k \in (DOMAIN board \ {positionKey(squareFrom)}) \cup {positionKey(squareTo)} |->
      IF k = positionKey(squareTo) THEN board[positionKey(squareFrom)] ELSE board[k]]

isOpponentOf(piece, other) == piece.side # other.side

(***************************************************************************)
(* Piece move generation (pseudo-legal destinations).                      *)
(***************************************************************************)
onBoard(ci, r) == ci \in 1..BOARDSIZE /\ r \in 1..BOARDSIZE

\* the square dc columns and dr rows away from position; only used on board
shifted(position, dc, dr) == Square(columns[columnIndex(position.column) + dc], position.row + dr)

isShiftOnBoard(position, dc, dr) == onBoard(columnIndex(position.column) + dc, position.row + dr)

\* walk one direction a square at a time up to the first occupied square
RECURSIVE lineMoves(_, _, _, _, _)
lineMoves(side, position, dc, dr, board) ==
  IF ~isShiftOnBoard(position, dc, dr) THEN <<>>
  ELSE LET next == shifted(position, dc, dr)
           there == onPositionPiece(board, next)
       IN IF isDefined(there)
            THEN (IF there.side # side THEN <<next>> ELSE <<>>)
            ELSE <<next>> \o lineMoves(side, next, dc, dr, board)

RECURSIVE slidingMoves(_, _, _, _)
slidingMoves(side, position, directions, board) ==
  IF directions = <<>> THEN <<>>
  ELSE lineMoves(side, position, Head(directions)[1], Head(directions)[2], board)
         \o slidingMoves(side, position, Tail(directions), board)

RECURSIVE offsetMoves(_, _, _, _)
offsetMoves(side, position, offsets, board) ==
  IF offsets = <<>> THEN <<>>
  ELSE LET dc == Head(offsets)[1]
           dr == Head(offsets)[2]
           rest == offsetMoves(side, position, Tail(offsets), board)
       IN IF isShiftOnBoard(position, dc, dr)
             /\ onPositionPiece(board, shifted(position, dc, dr)).side # side
            THEN <<shifted(position, dc, dr)>> \o rest
            ELSE rest

rookDirections == <<<<0, 1>>, <<1, 0>>, <<0, -1>>, <<-1, 0>>>>
bishopDirections == <<<<1, 1>>, <<1, -1>>, <<-1, -1>>, <<-1, 1>>>>
queenDirections == rookDirections \o bishopDirections
kingOffsets == queenDirections
knightOffsets == <<<<1, 2>>, <<2, 1>>, <<2, -1>>, <<1, -2>>, <<-1, -2>>, <<-2, -1>>, <<-2, 1>>, <<-1, 2>>>>

\* a pawn advances towards the other side's back row
pawnDirection(side) == IF side = WHITE THEN 1 ELSE -1
pawnStartRow(side) == IF side = WHITE THEN 2 ELSE BOARDSIZE - 1

goAhead(side, position, board) ==
  IF isShiftOnBoard(position, 0, pawnDirection(side))
     /\ ~isDefined(onPositionPiece(board, shifted(position, 0, pawnDirection(side))))
    THEN <<shifted(position, 0, pawnDirection(side))>>
    ELSE <<>>

goDoubleAhead(side, position, board) ==
  IF position.row = pawnStartRow(side)
     /\ ~isDefined(onPositionPiece(board, shifted(position, 0, pawnDirection(side))))
     /\ ~isDefined(onPositionPiece(board, shifted(position, 0, 2 * pawnDirection(side))))
    THEN <<shifted(position, 0, 2 * pawnDirection(side))>>
    ELSE <<>>

pawnCapture(side, position, dc, board) ==
  IF isShiftOnBoard(position, dc, pawnDirection(side))
     /\ isDefined(onPositionPiece(board, shifted(position, dc, pawnDirection(side))))
     /\ onPositionPiece(board, shifted(position, dc, pawnDirection(side))).side # side
    THEN <<shifted(position, dc, pawnDirection(side))>>
    ELSE <<>>

goDiagonalAhead(side, position, board) ==
  pawnCapture(side, position, -1, board) \o pawnCapture(side, position, 1, board)

\* the captures listed before the advances
pawnPossibleMovesDiagonalFirst(side, position, board) ==
  goDiagonalAhead(side, position, board) \o goAhead(side, position, board)
    \o goDoubleAhead(side, position, board)

\* Pawn.possibleMoves: the three sub-rules, concatenated
pawnPossibleMoves(side, position, board) ==
  goAhead(side, position, board) \o goDoubleAhead(side, position, board)
    \o goDiagonalAhead(side, position, board)

\* piece.possibleMoves(position, board), dispatched on the piece's kind
piecePossibleMoves(piece, position, board) ==
  CASE piece.name = "Pawn" -> pawnPossibleMoves(piece.side, position, board)
    [] piece.name = "Knight" -> offsetMoves(piece.side, position, knightOffsets, board)
    [] piece.name = "King" -> offsetMoves(piece.side, position, kingOffsets, board)
    [] piece.name = "Rook" -> slidingMoves(piece.side, position, rookDirections, board)
    [] piece.name = "Bishop" -> slidingMoves(piece.side, position, bishopDirections, board)
    [] piece.name = "Queen" -> slidingMoves(piece.side, position, queenDirections, board)

\* the elements of a list, as a set
Range(s) == {s[i] : i \in DOMAIN s}


(***************************************************************************)
(* ChessEngine.                                                            *)
(***************************************************************************)
NoError == "none"
NoPieceError == "There is no piece on this square."
NotYourTurnError == "It's not Your turn."
OtherPlayersPieceError == "Player can not move other players pieces."
CanNotMoveError == "Piece can not move to given square."
TypeError == "TypeError"

Player(side) == [side |-> side]

PieceWasMoved(piece, from, to) ==
  [eventType |-> "PieceWasMoved", piece |-> piece, from |-> from, to |-> to]

PieceWasCaptured(piece, onSquare) ==
  [eventType |-> "PieceWasCaptured", piece |-> piece, onSquare |-> onSquare]

\* a capture event that names the piece that moved
pieceWasCapturedNamesMover(board, squareTo, chosenPiece) ==
  LET pieceOnSquare == onPositionPiece(board, squareTo)
  IN IF isDefined(pieceOnSquare) /\ isOpponentOf(pieceOnSquare, chosenPiece)
       THEN <<PieceWasCaptured(chosenPiece, squareTo)>>
       ELSE <<>>

\* a capture that is never reported
pieceWasCapturedNever(board, squareTo, chosenPiece) == <<>>

\* pieceWasCaptured: the list holding the capture event, empty for undefined
pieceWasCaptured(board, squareTo, chosenPiece) ==
  LET pieceOnSquare == onPositionPiece(board, squareTo)
  IN IF isDefined(pieceOnSquare) /\ isOpponentOf(pieceOnSquare, chosenPiece)
       THEN <<PieceWasCaptured(pieceOnSquare, squareTo)>>
       ELSE <<>>

\* a turn that always passes to BLACK
changeTurnToBlack(side) == BLACK

changeTurn(side) == IF side = WHITE THEN BLACK ELSE WHITE

\* the turn passed on without the board being moved
onPieceWasMovedWithoutBoard(board, event) ==
  [board |-> board, currentSide |-> changeTurn(event.piece.side)]

\* the piece put on event.to and left on event.from
onPieceWasMovedCopy(board, event) ==
  [board |-> [k \in DOMAIN board \cup {positionKey(event.to)} |->
                 IF k = positionKey(event.to) THEN event.piece ELSE board[k]],
   currentSide |-> changeTurn(event.piece.side)]

\* onPieceWasMoved: the board and the side to move after the event
onPieceWasMoved(board, event) ==
  [board |-> movePiece(board, event.from, event.to),
   currentSide |-> changeTurn(event.piece.side)]

\* _.cloneDeep: an independent copy with the same contents
cloneDeep(chessboard) == chessboard

\* the proposed board built in the board passed in, without cloneDeep
returnWirtualWithoutClone(chessboard, squareFrom, squareTo) ==
  LET proposed == [k \in (DOMAIN chessboard \ {positionKey(squareFrom)})
                            \cup {positionKey(squareTo)} |->
                      IF k = positionKey(squareTo)
                        THEN onPositionPiece(chessboard, squareFrom)
                        ELSE chessboard[k]]
  IN [chessboard |-> proposed, proposed |-> proposed]

\* the proposed board with the moved piece left on squareFrom as well
returnWirtualWithoutDelete(chessboard, squareFrom, squareTo) ==
  [chessboard |-> chessboard,
   proposed |-> [k \in DOMAIN chessboard \cup {positionKey(squareTo)} |->
                    IF k = positionKey(squareTo)
                      THEN onPositionPiece(chessboard, squareFrom)
                      ELSE chessboard[k]]]

\* returnWirtualProposedBoardAfterMove: the board passed in, as the call
\* leaves it, and the proposed board the call returns
returnWirtualProposedBoardAfterMove(chessboard, squareFrom, squareTo) ==
  LET wirtual == cloneDeep(chessboard)
      movedPiece == onPositionPiece(chessboard, squareFrom)
      positionFrom == positionKey(squareFrom)
      positionTo == positionKey(squareTo)
  IN [chessboard |-> chessboard,
      proposed |-> [k \in (DOMAIN wirtual \ {positionFrom}) \cup {positionTo} |->
                       IF k = positionTo THEN movedPiece ELSE wirtual[k]]]

\* the king looked for on the other side
kingPositionOtherSide(kingSide, chessboard) ==
  LET kingKeys == {key \in DOMAIN chessboard :
                      chessboard[key].name = "King" /\ chessboard[key].side # kingSide}
  IN IF kingKeys = {} THEN undefinedSquare
     ELSE squareOfKey(CHOOSE key \in kingKeys : TRUE)

\* kingPosition: the square of the first key holding a King of kingSide
\* (a board holds at most one king a side, so the first is the only one)
kingPosition(kingSide, chessboard) ==
  LET kingKeys == {key \in DOMAIN chessboard :
                      chessboard[key].name = "King" /\ chessboard[key].side = kingSide}
  IN IF kingKeys = {} THEN undefinedSquare
     ELSE squareOfKey(CHOOSE key \in kingKeys : TRUE)

\* JSON.stringify of a Square or of undefined
stringify(square) ==
  IF square = undefinedSquare THEN <<>>
  ELSE <<"column", square.column, "row", square.row>>

\* a key of the board holds undefined: reading its side or name throws
readsUndefinedPiece(chessboard) ==
  \E key \in DOMAIN chessboard : chessboard[key] = undefinedPiece

isKingChecked(chessboard, kingSide) ==
  LET king == kingPosition(kingSide, chessboard)
  IN \E key \in DOMAIN chessboard :
        /\ chessboard[key].side # kingSide
        /\ LET possible == piecePossibleMoves(chessboard[key], squareOfKey(key), chessboard)
           IN \E i \in DOMAIN possible : stringify(possible[i]) = stringify(king)

\* the king of the side that is not to move tested
willBeKingCheckedOtherSide(board, side, squareFrom, squareTo) ==
  LET r == returnWirtualProposedBoardAfterMove(board, squareFrom, squareTo)
  IN IF readsUndefinedPiece(r.proposed)
       THEN [board |-> r.chessboard, error |-> TypeError, checked |-> FALSE]
       ELSE [board |-> r.chessboard, error |-> NoError,
             checked |-> isKingChecked(r.proposed, changeTurn(side))]

\* willBeKingChecked: the live board after the call, and what it returns or throws
willBeKingChecked(board, side, squareFrom, squareTo) ==
  LET r == returnWirtualProposedBoardAfterMove(board, squareFrom, squareTo)
  IN IF readsUndefinedPiece(r.proposed)
       THEN [board |-> r.chessboard, error |-> TypeError, checked |-> FALSE]
       ELSE [board |-> r.chessboard, error |-> NoError,
             checked |-> isKingChecked(r.proposed, side)]

\* a candidate the filter keeps, put before the rest of the filter's result
keepCandidate(candidate, rest) ==
  [board |-> rest.board, moves |-> <<candidate>> \o rest.moves]

\* initialPossibleMoves.filter(filteringFunction): one candidate after the
\* other, each kept unless willBeKingChecked returns true for it
RECURSIVE filterMoves(_, _, _, _)
filterMoves(board, side, position, candidates) ==
  IF candidates = <<>> THEN [board |-> board, moves |-> <<>>]
  ELSE LET w == willBeKingChecked(board, side, position, Head(candidates))
       IN IF w.checked
            THEN filterMoves(w.board, side, position, Tail(candidates))
            ELSE keepCandidate(Head(candidates),
                               filterMoves(w.board, side, position, Tail(candidates)))

returnPlayerMovesWithoutThoseThatCauseHisKingToCheck(board, side, position) ==
  LET piece == onPositionPiece(board, position)
      initialPossibleMoves ==
        IF isDefined(piece) THEN piecePossibleMoves(piece, position, board) ELSE <<>>
  IN filterMoves(board, side, position, initialPossibleMoves)

\* possibleMoves: the live board after the call, and the moves it returns
possibleMoves(board, side, position) ==
  returnPlayerMovesWithoutThoseThatCauseHisKingToCheck(board, side, position)

\* a destination accepted only if it also keeps the mover's king safe
canMoveOnSquareKingSafe(board, squareFrom, squareTo) ==
  LET piece == onPositionPiece(board, squareFrom)
  IN IF ~isDefined(piece) THEN FALSE
     ELSE squareTo \in Range(possibleMoves(board, piece.side, squareFrom).moves)

\* every listed destination compared, not some
canMoveOnSquareEvery(board, squareFrom, squareTo) ==
  LET piece == onPositionPiece(board, squareFrom)
  IN IF ~isDefined(piece) THEN FALSE
     ELSE LET possible == piecePossibleMoves(piece, squareFrom, board)
          IN \A i \in DOMAIN possible :
                possible[i].column = squareTo.column /\ possible[i].row = squareTo.row

canMoveOnSquare(board, squareFrom, squareTo) ==
  LET piece == onPositionPiece(board, squareFrom)
  IN IF ~isDefined(piece) THEN FALSE
     ELSE LET possible == piecePossibleMoves(piece, squareFrom, board)
          IN \E i \in DOMAIN possible :
                possible[i].column = squareTo.column /\ possible[i].row = squareTo.row

\* the turn checked before the square is looked up
moveErrorTurnFirst(board, side, byPlayer, squareFrom, squareTo) ==
  LET chosenPiece == onPositionPiece(board, squareFrom)
  IN IF byPlayer.side # side THEN NotYourTurnError
     ELSE IF ~isDefined(chosenPiece) THEN NoPieceError
     ELSE IF byPlayer.side # chosenPiece.side THEN OtherPlayersPieceError
     ELSE IF ~canMoveOnSquare(board, squareFrom, squareTo) THEN CanNotMoveError
     ELSE NoError

\* the owner checked before the turn
moveErrorOwnerFirst(board, side, byPlayer, squareFrom, squareTo) ==
  LET chosenPiece == onPositionPiece(board, squareFrom)
  IN IF ~isDefined(chosenPiece) THEN NoPieceError
     ELSE IF byPlayer.side # chosenPiece.side THEN OtherPlayersPieceError
     ELSE IF byPlayer.side # side THEN NotYourTurnError
     ELSE IF ~canMoveOnSquare(board, squareFrom, squareTo) THEN CanNotMoveError
     ELSE NoError

\* the owner of the piece not checked
moveErrorWithoutOwnerCheck(board, side, byPlayer, squareFrom, squareTo) ==
  LET chosenPiece == onPositionPiece(board, squareFrom)
  IN IF ~isDefined(chosenPiece) THEN NoPieceError
     ELSE IF byPlayer.side # side THEN NotYourTurnError
     ELSE IF ~canMoveOnSquare(board, squareFrom, squareTo) THEN CanNotMoveError
     ELSE NoError

\* the turn not checked
moveErrorWithoutTurnCheck(board, side, byPlayer, squareFrom, squareTo) ==
  LET chosenPiece == onPositionPiece(board, squareFrom)
  IN IF ~isDefined(chosenPiece) THEN NoPieceError
     ELSE IF byPlayer.side # chosenPiece.side THEN OtherPlayersPieceError
     ELSE IF ~canMoveOnSquare(board, squareFrom, squareTo) THEN CanNotMoveError
     ELSE NoError

\* what a call of move throws, NoError when it returns
moveError(board, side, byPlayer, squareFrom, squareTo) ==
  LET chosenPiece == onPositionPiece(board, squareFrom)
  IN IF ~isDefined(chosenPiece) THEN NoPieceError
     ELSE IF byPlayer.side # side THEN NotYourTurnError
     ELSE IF byPlayer.side # chosenPiece.side THEN OtherPlayersPieceError
     ELSE IF ~canMoveOnSquare(board, squareFrom, squareTo) THEN CanNotMoveError
     ELSE NoError

\* the board moved before the destination is validated
moveBeforeValidation(board, side, byPlayer, squareFrom, squareTo) ==
  LET chosenPiece == onPositionPiece(board, squareFrom)
      error == moveError(board, side, byPlayer, squareFrom, squareTo)
      moved == PieceWasMoved(chosenPiece, squareFrom, squareTo)
      captured == pieceWasCaptured(board, squareTo, chosenPiece)
      after == onPieceWasMoved(board, moved)
  IN IF error = CanNotMoveError
       THEN [error |-> error, events |-> <<>>, board |-> after.board, currentSide |-> side]
       ELSE IF error # NoError
       THEN [error |-> error, events |-> <<>>, board |-> board, currentSide |-> side]
       ELSE [error |-> NoError, events |-> <<moved>> \o captured,
             board |-> after.board, currentSide |-> after.currentSide]

\* move: the error thrown, the events returned, and the engine's state after
move(board, side, byPlayer, squareFrom, squareTo) ==
  LET chosenPiece == onPositionPiece(board, squareFrom)
      error == moveError(board, side, byPlayer, squareFrom, squareTo)
      moved == PieceWasMoved(chosenPiece, squareFrom, squareTo)
      captured == pieceWasCaptured(board, squareTo, chosenPiece)
      after == onPieceWasMoved(board, moved)
  IN IF error # NoError
       THEN [error |-> error, events |-> <<>>, board |-> board, currentSide |-> side]
       ELSE [error |-> NoError, events |-> <<moved>> \o captured,
             board |-> after.board, currentSide |-> after.currentSide]

(***************************************************************************)
(* The state machine: one engine, one caller.                              *)
(***************************************************************************)
VARIABLES
  board,        \* squaresWithPiece of the live board
  currentSide,  \* the side to move
  pc,           \* "ready": the caller may call; "returned": a call has ended
  last,         \* the call that ended last, with what it returned or threw
  moves,        \* successful moves so far
  initialBoard, \* the board the engine was constructed with
  log,          \* the events returned by the successful moves so far, in order
  legal         \* every successful move so far went to a square that
                \* possibleMoves listed for its squareFrom

vars == <<board, currentSide, pc, last, moves, initialBoard, log, legal>>

\* the boards an engine is constructed with: at most one king a side
PinnedQueenBoard ==
  (<<"A", 1>> :> Piece("wK", WHITE, "King")) @@ (<<"B", 2>> :> Piece("wQ", WHITE, "Queen"))
    @@ (<<"A", 2>> :> Piece("wP", WHITE, "Pawn")) @@ (<<"C", 3>> :> Piece("bB", BLACK, "Bishop"))
    @@ (<<"C", 1>> :> Piece("bK", BLACK, "King"))

PinnedBishopBoard ==
  (<<"A", 3>> :> Piece("wK", WHITE, "King")) @@ (<<"A", 1>> :> Piece("wR", WHITE, "Rook"))
    @@ (<<"B", 1>> :> Piece("bB", BLACK, "Bishop")) @@ (<<"C", 1>> :> Piece("bK", BLACK, "King"))

NoKingBoard ==
  (<<"B", 1>> :> Piece("wR", WHITE, "Rook")) @@ (<<"C", 1>> :> Piece("wN", WHITE, "Knight"))
    @@ (<<"B", 3>> :> Piece("bP", BLACK, "Pawn")) @@ (<<"C", 2>> :> Piece("bQ", BLACK, "Queen"))

InitialBoards == {PinnedQueenBoard, PinnedBishopBoard, NoKingBoard}

\* the squares the caller passes
InputColumns == {"A", "B", "C"}
InputSquares == {Square(c, r) : c \in InputColumns, r \in 1..MaxInputRow}

NoCall ==
  [op |-> "none", side |-> "undefined", from |-> undefinedSquare, to |-> undefinedSquare,
   error |-> NoError, events |-> <<>>, result |-> <<>>, checked |-> FALSE,
   boardBefore |-> <<>>, sideBefore |-> "undefined"]

Init ==
  /\ board \in InitialBoards
  /\ currentSide = WHITE
  /\ pc = "ready"
  /\ last = NoCall
  /\ moves = 0
  /\ initialBoard = board
  /\ log = <<>>
  /\ legal = TRUE

\* engine.move(byPlayer, squareFrom, squareTo)
Move(byPlayer, squareFrom, squareTo) ==
  LET r == move(board, currentSide, byPlayer, squareFrom, squareTo)
  IN /\ pc = "ready"
     /\ r.error = NoError => moves < MaxMoves
     /\ board' = r.board
     /\ currentSide' = r.currentSide
     /\ moves' = IF r.error = NoError THEN moves + 1 ELSE moves
     /\ last' = [NoCall EXCEPT !.op = "move", !.side = byPlayer.side, !.from = squareFrom,
                               !.to = squareTo, !.error = r.error, !.events = r.events,
                               !.boardBefore = board, !.sideBefore = currentSide]
     /\ pc' = "returned"
     /\ log' = log \o r.events
     /\ legal' = (legal /\ (r.error = NoError =>
                     squareTo \in Range(possibleMoves(board, currentSide, squareFrom).moves)))
     /\ UNCHANGED initialBoard

\* engine.possibleMoves(position)
PossibleMoves(position) ==
  LET r == possibleMoves(board, currentSide, position)
  IN /\ pc = "ready"
     /\ board' = r.board
     /\ last' = [NoCall EXCEPT !.op = "possibleMoves", !.from = position, !.result = r.moves,
                               !.boardBefore = board, !.sideBefore = currentSide]
     /\ pc' = "returned"
     /\ UNCHANGED <<currentSide, moves, initialBoard, log, legal>>

\* engine.willBeKingChecked(squareFrom, squareTo)
WillBeKingChecked(squareFrom, squareTo) ==
  LET r == willBeKingChecked(board, currentSide, squareFrom, squareTo)
  IN /\ pc = "ready"
     /\ board' = r.board
     /\ last' = [NoCall EXCEPT !.op = "willBeKingChecked", !.from = squareFrom,
                               !.to = squareTo, !.error = r.error, !.checked = r.checked,
                               !.boardBefore = board, !.sideBefore = currentSide]
     /\ pc' = "returned"
     /\ UNCHANGED <<currentSide, moves, initialBoard, log, legal>>

\* ChessEngine.isKingChecked(chessboard, kingSide), called on the live board
IsKingChecked(kingSide) ==
  /\ pc = "ready"
  /\ last' = [NoCall EXCEPT !.op = "isKingChecked", !.side = kingSide,
                            !.error = IF readsUndefinedPiece(board) THEN TypeError ELSE NoError,
                            !.checked = ~readsUndefinedPiece(board) /\ isKingChecked(board, kingSide),
                            !.boardBefore = board, !.sideBefore = currentSide]
  /\ pc' = "returned"
  /\ UNCHANGED <<board, currentSide, moves, initialBoard, log, legal>>

\* the caller takes the result of the call that ended
TakeResult ==
  /\ pc = "returned"
  /\ pc' = "ready"
  /\ last' = NoCall
  /\ UNCHANGED <<board, currentSide, moves, initialBoard, log, legal>>

Next ==
  \/ \E side \in Side, squareFrom \in InputSquares, squareTo \in InputSquares :
        Move(Player(side), squareFrom, squareTo)
  \/ \E position \in InputSquares : PossibleMoves(position)
  \/ \E squareFrom \in InputSquares, squareTo \in InputSquares :
        WillBeKingChecked(squareFrom, squareTo)
  \/ \E kingSide \in Side : IsKingChecked(kingSide)
  \/ TakeResult

Spec == Init /\ [][Next]_vars


(***************************************************************************)
(* Pawn.possibleMoves on its own: a pawn of either side on any row of        *)
(* three files, the four squares its sub-rules look at each empty, held by   *)
(* a piece of its side or held by a piece of the other side.                 *)
(***************************************************************************)
PawnColumns == {"A", "D", "H"}
PawnPositions == {Square(c, r) : c \in PawnColumns, r \in 1..BOARDSIZE}

\* the offsets of the squares a pawn's sub-rules look at
PawnNeighbourhood(side) ==
  {<<0, pawnDirection(side)>>, <<0, 2 * pawnDirection(side)>>,
   <<-1, pawnDirection(side)>>, <<1, pawnDirection(side)>>}

Occupancy == {"none", "friend", "foe"}

\* the board with a pawn of side on position and around it the pieces given
PawnBoard(side, position, around) ==
  LET held == {o \in PawnNeighbourhood(side) :
                  isShiftOnBoard(position, o[1], o[2]) /\ around[o] # "none"}
  IN [k \in {positionKey(position)}
              \cup {positionKey(shifted(position, o[1], o[2])) : o \in held} |->
        IF k = positionKey(position) THEN Piece("pawn", side, "Pawn")
        ELSE LET o == CHOOSE o \in held : positionKey(shifted(position, o[1], o[2])) = k
             IN Piece("rook", IF around[o] = "friend" THEN side ELSE changeTurn(side), "Rook")]

PawnBoardsOf(side) ==
  {PawnBoard(side, position, around) :
     position \in PawnPositions, around \in [PawnNeighbourhood(side) -> Occupancy]}

PawnBoards == PawnBoardsOf(WHITE) \cup PawnBoardsOf(BLACK)

PawnInit ==
  /\ board \in PawnBoards
  /\ currentSide = WHITE
  /\ pc = "ready"
  /\ last = NoCall
  /\ moves = 0
  /\ initialBoard = board
  /\ log = <<>>
  /\ legal = TRUE

\* pawn.possibleMoves(position, board) for the pawn on position
PawnPossibleMoves(position) ==
  /\ pc = "ready"
  /\ onPositionPiece(board, position).name = "Pawn"
  /\ last' = [NoCall EXCEPT !.op = "Pawn.possibleMoves", !.from = position,
                            !.result = piecePossibleMoves(onPositionPiece(board, position),
                                                          position, board),
                            !.boardBefore = board, !.sideBefore = currentSide]
  /\ pc' = "returned"
  /\ UNCHANGED <<board, currentSide, moves, initialBoard, log, legal>>

PawnNext ==
  \/ \E position \in PawnPositions : PawnPossibleMoves(position)
  \/ TakeResult

PawnSpec == PawnInit /\ [][PawnNext]_vars

(***************************************************************************)
(* Properties.  They are stated on the state in which a call has ended:    *)
(* last holds the call, its outcome and the engine's state before it, and  *)
(* board and currentSide are the engine's state after it.                  *)
(***************************************************************************)
MoveEnded == pc = "returned" /\ last.op = "move"
MoveSucceeded == MoveEnded /\ last.error = NoError
MoveFailed == MoveEnded /\ last.error # NoError

\* the piece on the call's squareFrom and squareTo before the call
PieceOnFromBefore == onPositionPiece(last.boardBefore, last.from)
PieceOnToBefore == onPositionPiece(last.boardBefore, last.to)

\* the pseudo-legal destinations of the piece on squareFrom before the call
PseudoLegalBefore ==
  IF isDefined(PieceOnFromBefore)
    THEN Range(piecePossibleMoves(PieceOnFromBefore, last.from, last.boardBefore))
    ELSE {}

\* C1: a successful move leaves currentSide on the side other than the one
\* before the call, and a failed move leaves currentSide as it was.
C1_MoveAlternatesSide ==
  /\ MoveSucceeded =>
       \/ last.sideBefore = WHITE /\ currentSide = BLACK
       \/ last.sideBefore = BLACK /\ currentSide = WHITE
  /\ MoveFailed => currentSide = last.sideBefore

\* a move of BLACK succeeded
C1_Witness == MoveSucceeded /\ last.sideBefore = BLACK /\ currentSide = WHITE

\* C2 as claimed: a move by the side that is not to move fails with the
\* out-of-turn error, whatever squareFrom and squareTo are, and changes nothing.
C2_OutOfTurnForEverySquare ==
  (MoveEnded /\ last.side # last.sideBefore) =>
     /\ last.error = NotYourTurnError
     /\ board = last.boardBefore
     /\ currentSide = last.sideBefore

\* C2 as amended: a move by the side that is not to move fails with the
\* out-of-turn error when squareFrom holds a piece and with the no-piece error
\* when it holds none, and changes neither the board nor currentSide.
C2_OutOfTurnWhenFromOccupied ==
  (MoveEnded /\ last.side # last.sideBefore) =>
     /\ isDefined(PieceOnFromBefore) => last.error = NotYourTurnError
     /\ ~isDefined(PieceOnFromBefore) => last.error = NoPieceError
     /\ board = last.boardBefore
     /\ currentSide = last.sideBefore

\* the side not to move asked to move one of the pieces of the side to move
C2_Witness ==
  /\ MoveEnded /\ last.side # last.sideBefore
  /\ isDefined(PieceOnFromBefore) /\ PieceOnFromBefore.side = last.sideBefore
  /\ last.error = NotYourTurnError

\* C3: the error of move is that of the first failing check in the order
\* no piece, not your turn, other player's piece, can not move; so an empty
\* squareFrom gives the no-piece error for either player, and the
\* other-player's-piece error is only given to the side to move.
C3_FirstFailingCheck ==
  MoveEnded =>
     /\ last.error =
          IF ~isDefined(PieceOnFromBefore) THEN NoPieceError
          ELSE IF last.side # last.sideBefore THEN NotYourTurnError
          ELSE IF PieceOnFromBefore.side # last.side THEN OtherPlayersPieceError
          ELSE IF last.to \notin PseudoLegalBefore THEN CanNotMoveError
          ELSE NoError
     /\ ~isDefined(PieceOnFromBefore) => last.error = NoPieceError
     /\ last.error = OtherPlayersPieceError => last.side = last.sideBefore

\* the side to move asked to move a piece of the other side
C3_Witness ==
  /\ MoveEnded /\ last.error = OtherPlayersPieceError
  /\ last.side = last.sideBefore /\ PieceOnFromBefore.side # last.side

\* C4: a failed move leaves the live board's mapping as it was and returns
\* no event.
C4_FailedMoveChangesNothing ==
  MoveFailed => (board = last.boardBefore /\ last.events = <<>>)

\* the side to move asked for a destination its piece can not reach
C4_Witness ==
  /\ MoveFailed /\ last.error = CanNotMoveError
  /\ isDefined(PieceOnFromBefore) /\ last.to # last.from

\* C5: a successful move returns the PieceWasMoved event of the piece that
\* stood on squareFrom first, followed by a PieceWasCaptured event exactly
\* when squareTo held a piece of the other side before the move, and that
\* event names the piece that stood on squareTo; there is no further event.
C5_EventsOfMove ==
  MoveSucceeded =>
     /\ Len(last.events) \in {1, 2}
     /\ last.events[1] = [eventType |-> "PieceWasMoved", piece |-> PieceOnFromBefore,
                          from |-> last.from, to |-> last.to]
     /\ Len(last.events) = 2 <=>
          (isDefined(PieceOnToBefore) /\ PieceOnToBefore.side # PieceOnFromBefore.side)
     /\ Len(last.events) = 2 =>
          last.events[2] = [eventType |-> "PieceWasCaptured", piece |-> PieceOnToBefore,
                            onSquare |-> last.to]

\* a move captured a piece
C5_Witness ==
  /\ MoveSucceeded /\ Len(last.events) = 2
  /\ isDefined(PieceOnToBefore) /\ last.events[2].piece = PieceOnToBefore


PossibleMovesEnded == pc = "returned" /\ last.op = "possibleMoves"
WillBeKingCheckedEnded == pc = "returned" /\ last.op = "willBeKingChecked"
IsKingCheckedEnded == pc = "returned" /\ last.op = "isKingChecked"

\* the pseudo-legal destinations of the piece on the call's position, as the
\* piece lists them on the board before the call
CandidatesBefore ==
  IF isDefined(PieceOnFromBefore)
    THEN piecePossibleMoves(PieceOnFromBefore, last.from, last.boardBefore)
    ELSE <<>>

\* the board before the call with the piece on the call's position relocated
\* to destination, whatever stood on destination removed
HypotheticalBoard(destination) ==
  [k \in (DOMAIN last.boardBefore \ {positionKey(last.from)}) \cup {positionKey(destination)} |->
      IF k = positionKey(destination) THEN PieceOnFromBefore ELSE last.boardBefore[k]]

\* some piece of the other side has the square of side's king among its
\* pseudo-legal destinations on chessboard
KingAttacked(chessboard, side) ==
  \E k \in DOMAIN chessboard, e \in DOMAIN chessboard :
     /\ chessboard[k].name = "King" /\ chessboard[k].side = side
     /\ chessboard[e].side # side
     /\ \E i \in DOMAIN piecePossibleMoves(chessboard[e], Square(e[1], e[2]), chessboard) :
           piecePossibleMoves(chessboard[e], Square(e[1], e[2]), chessboard)[i]
             = Square(k[1], k[2])

KeepsKingSafe(destination) == ~isKingChecked(HypotheticalBoard(destination), last.sideBefore)

\* C6: possibleMoves(position) returns the pseudo-legal destinations of the
\* piece on position for which isKingChecked is false for currentSide on the
\* live board with the piece relocated there, and the empty list for an
\* unoccupied position.
C6_PossibleMovesFiltersByCheck ==
  PossibleMovesEnded =>
     /\ last.error = NoError
     /\ last.result = SelectSeq(CandidatesBefore, KeepsKingSafe)
     /\ ~isDefined(PieceOnFromBefore) => last.result = <<>>

\* of the moves of a pinned piece only the capture of the pinning piece is left
C6_Witness ==
  /\ PossibleMovesEnded /\ isDefined(PieceOnFromBefore)
  /\ Len(last.result) = 1 /\ Len(CandidatesBefore) > 1
  /\ isDefined(onPositionPiece(last.boardBefore, last.result[1]))
  /\ ~KingAttacked(HypotheticalBoard(last.result[1]), last.sideBefore)
  /\ \E i \in DOMAIN CandidatesBefore :
        KingAttacked(HypotheticalBoard(CandidatesBefore[i]), last.sideBefore)

\* C7 as claimed: no destination returned by possibleMoves(position) leaves
\* the king of the side that owns the piece on position attacked, also when
\* that side is not the side to move.
C7_ReturnedMovesKeepOwnKingSafe ==
  (PossibleMovesEnded /\ isDefined(PieceOnFromBefore)) =>
     \A i \in DOMAIN last.result :
        ~KingAttacked(HypotheticalBoard(last.result[i]), PieceOnFromBefore.side)

\* C8: isKingChecked(board, kingSide) is true exactly when the board holds a
\* king of kingSide whose square is among the pseudo-legal destinations of a
\* piece of the other side; it is false without such a king and never throws.
C8_IsKingCheckedIffAttacked ==
  IsKingCheckedEnded =>
     /\ last.error = NoError
     /\ last.checked <=> KingAttacked(last.boardBefore, last.side)
     /\ (\A k \in DOMAIN last.boardBefore :
            ~(last.boardBefore[k].name = "King" /\ last.boardBefore[k].side = last.side))
          => ~last.checked

\* a king on the live board is found in check
C8_Witness ==
  /\ IsKingCheckedEnded /\ last.checked
  /\ \E k \in DOMAIN last.boardBefore :
        last.boardBefore[k].name = "King" /\ last.boardBefore[k].side = last.side

\* C9: only a successful move changes the live board or currentSide; the
\* calls of possibleMoves, willBeKingChecked and isKingChecked change neither.
C9_OnlyMoveChangesState ==
  [][(board' # board \/ currentSide' # currentSide)
        => (last'.op = "move" /\ last'.error = NoError)]_vars

\* willBeKingChecked built a proposed board with the king in check and the
\* live board is as before
C9_Witness ==
  /\ WillBeKingCheckedEnded /\ last.error = NoError /\ last.checked
  /\ last.from # last.to
  /\ board = last.boardBefore /\ currentSide = last.sideBefore

\* C10: for the side to move and a piece of its own, move succeeds exactly
\* when squareTo is among the piece's pseudo-legal destinations on the live
\* board, also when the move leaves the mover's own king in check.
C10_MoveTrustsPseudoLegal ==
  (MoveEnded /\ last.side = last.sideBefore /\ isDefined(PieceOnFromBefore)
     /\ PieceOnFromBefore.side = last.side) =>
     /\ last.error = NoError <=> last.to \in PseudoLegalBefore
     /\ last.error # NoError => last.error = CanNotMoveError

\* a move that possibleMoves excludes was played and left the mover in check
C10_Witness ==
  /\ MoveSucceeded
  /\ ~KingAttacked(last.boardBefore, last.sideBefore)
  /\ KingAttacked(board, last.sideBefore)
  /\ last.to \notin Range(possibleMoves(last.boardBefore, last.sideBefore, last.from).moves)


\* the events returned before the call that ended
LogBefore == IF MoveSucceeded THEN SubSeq(log, 1, Len(log) - Len(last.events)) ELSE log

\* the last event returned before the call that ended
FirstLeg == LogBefore[Len(LogBefore)]

\* the last successful move took a piece from a to b without a capture, and
\* the call that ended is move(opponent, b, a)
ReverseCall ==
  /\ MoveEnded /\ LogBefore # <<>>
  /\ FirstLeg.eventType = "PieceWasMoved"
  /\ last.side # FirstLeg.piece.side
  /\ last.from = FirstLeg.to /\ last.to = FirstLeg.from

\* C11 as claimed: move(p, a, b) without capture and then move(opponent, b, a)
\* take the piece back, so that a holds it again and b is empty again.
C11_RoundTripRestores ==
  ReverseCall =>
     /\ last.error = NoError
     /\ onPositionPiece(board, FirstLeg.from) = FirstLeg.piece
     /\ ~isDefined(onPositionPiece(board, FirstLeg.to))

\* C11 as amended: after move(p, a, b) without capture the call
\* move(opponent, b, a) fails with the other-player's-piece error, because the
\* piece on b is p's, and changes nothing: a is empty and b holds the piece.
C11_ReverseByOpponentFails ==
  ReverseCall =>
     /\ last.error = OtherPlayersPieceError
     /\ board = last.boardBefore
     /\ ~isDefined(onPositionPiece(board, FirstLeg.from))
     /\ onPositionPiece(board, FirstLeg.to) = FirstLeg.piece

\* the opponent asked for the way back of a piece that could go back
C11_Witness ==
  /\ ReverseCall /\ last.error = OtherPlayersPieceError
  /\ FirstLeg.from \in Range(piecePossibleMoves(FirstLeg.piece, FirstLeg.to, board))


\* the pieces on a board
PiecesOn(chessboard) == {chessboard[k] : k \in DOMAIN chessboard}

\* the pieces named by the PieceWasCaptured events of a list of events
CapturedIn(events) ==
  {events[i].piece : i \in {j \in DOMAIN events : events[j].eventType = "PieceWasCaptured"}}

\* the number of PieceWasCaptured events in a list of events
CapturesIn(events) ==
  Cardinality({j \in DOMAIN events : events[j].eventType = "PieceWasCaptured"})

\* C12: after a successful move squareFrom is empty, squareTo holds the piece
\* that stood on squareFrom, and every other square holds what it held.
C12_MoveRelocatesOnePiece ==
  MoveSucceeded =>
     /\ ~isDefined(onPositionPiece(board, last.from))
     /\ onPositionPiece(board, last.to) = PieceOnFromBefore
     /\ \A square \in AllSquares \ {last.from, last.to} :
           onPositionPiece(board, square) = onPositionPiece(last.boardBefore, square)

\* a piece moved onto an occupied square while other pieces stood by
C12_Witness ==
  /\ MoveSucceeded /\ isDefined(PieceOnToBefore)
  /\ onPositionPiece(board, last.to) = PieceOnFromBefore
  /\ Cardinality(DOMAIN board) >= 3

\* C13: in every state a piece, by its identity, stands on at most one
\* square, and every piece on the board is a piece of the initial board with
\* the identity and side it had there (a square holds at most one piece by
\* the board being a mapping from squares).
C13_PiecesStayUniqueAndOriginal ==
  /\ \A k1 \in DOMAIN board, k2 \in DOMAIN board : board[k1].id = board[k2].id => k1 = k2
  /\ \A k \in DOMAIN board : isDefined(board[k]) /\ board[k] \in PiecesOn(initialBoard)

\* possibleMoves was called after two moves, one of them a capture
C13_Witness ==
  /\ PossibleMovesEnded /\ isDefined(PieceOnFromBefore)
  /\ moves = 2 /\ Cardinality(DOMAIN board) < Cardinality(DOMAIN initialBoard)

\* C14: a successful move removes from the board exactly the pieces its
\* PieceWasCaptured event names, never a piece of the mover's side, and the
\* number of pieces on the board is the initial number less the number of
\* PieceWasCaptured events returned so far.
C14_PiecesLeaveOnlyByCapture ==
  /\ MoveSucceeded =>
       /\ PiecesOn(last.boardBefore) \ PiecesOn(board) = CapturedIn(last.events)
       /\ \A piece \in PiecesOn(last.boardBefore) :
             piece.side = last.side => piece \in PiecesOn(board)
  /\ Cardinality(DOMAIN board) = Cardinality(DOMAIN initialBoard) - CapturesIn(log)

\* a second capture was made
C14_Witness ==
  /\ MoveSucceeded /\ CapturesIn(last.events) = 1 /\ CapturesIn(log) = 2
  /\ Cardinality(DOMAIN board) = Cardinality(DOMAIN initialBoard) - 2


PawnCallEnded == pc = "returned" /\ last.op = "Pawn.possibleMoves"

\* the three sub-rules of the pawn the call was made on, on the board before
StraightBefore == goAhead(PieceOnFromBefore.side, last.from, last.boardBefore)
DoubleBefore == goDoubleAhead(PieceOnFromBefore.side, last.from, last.boardBefore)
DiagonalBefore == goDiagonalAhead(PieceOnFromBefore.side, last.from, last.boardBefore)

\* C15: a pawn's possibleMoves is its straight, double and diagonal sub-rules
\* on the same board, concatenated in this order: at most one straight, one
\* double and two diagonal destinations, no square twice, the board as before.
C15_PawnConcatenatesSubRules ==
  PawnCallEnded =>
     /\ last.result = StraightBefore \o DoubleBefore \o DiagonalBefore
     /\ Len(StraightBefore) <= 1 /\ Len(DoubleBefore) <= 1 /\ Len(DiagonalBefore) <= 2
     /\ Len(last.result) <= 4
     /\ \A i \in DOMAIN last.result, j \in DOMAIN last.result :
           last.result[i] = last.result[j] => i = j
     /\ board = last.boardBefore

\* a pawn on its starting row with all four destinations open
C15_Witness ==
  /\ PawnCallEnded /\ Len(last.result) = 4
  /\ Len(StraightBefore) = 1 /\ Len(DoubleBefore) = 1 /\ Len(DiagonalBefore) = 2


IsPieceWasMoved(event) == event.eventType = "PieceWasMoved"

\* the PieceWasMoved events returned so far, in order
MovedEvents == SelectSeq(log, IsPieceWasMoved)

\* C16: a fresh engine has WHITE to move, the pieces named by the successive
\* PieceWasMoved events are WHITE's, BLACK's, WHITE's, ... in turn, and after
\* a successful move currentSide is the side opposite to the moved piece's.
C16_MovedSidesAlternate ==
  /\ moves = 0 => currentSide = WHITE
  /\ \A i \in DOMAIN MovedEvents :
        MovedEvents[i].piece.side = IF i % 2 = 1 THEN WHITE ELSE BLACK
  /\ MoveSucceeded =>
       /\ currentSide \in Side
       /\ currentSide # PieceOnFromBefore.side

\* WHITE moved, then BLACK
C16_Witness ==
  /\ MoveSucceeded /\ Len(MovedEvents) = 2
  /\ MovedEvents[1].piece.side = WHITE /\ MovedEvents[2].piece.side = BLACK
  /\ currentSide = WHITE

\* C17: every destination possibleMoves returns for a piece of the side to
\* move is accepted by move for the player of that side, called next.
C17_PossibleMovesAcceptedByMove ==
  (PossibleMovesEnded /\ isDefined(PieceOnFromBefore)
     /\ PieceOnFromBefore.side = currentSide) =>
     \A i \in DOMAIN last.result :
        move(board, currentSide, Player(currentSide), last.from, last.result[i]).error
          = NoError

\* possibleMoves kept some candidates of a piece of the side to move and
\* discarded others
C17_Witness ==
  /\ PossibleMovesEnded /\ isDefined(PieceOnFromBefore)
  /\ PieceOnFromBefore.side = currentSide
  /\ Len(last.result) >= 2 /\ Len(last.result) < Len(CandidatesBefore)

\* the initial board holds one king a side and the side not to move first,
\* BLACK, is not in check on it
StartsSafe ==
  /\ \A side \in Side :
        Cardinality({k \in DOMAIN initialBoard :
                        initialBoard[k].name = "King" /\ initialBoard[k].side = side}) = 1
  /\ ~KingAttacked(initialBoard, BLACK)

\* C18: from such a board, as long as every successful move goes to a square
\* possibleMoves listed for its squareFrom, the king of the side that just
\* moved is not in check on the live board, which is the proposed board that
\* possibleMoves tested, and no PieceWasCaptured event names a king.
C18_LegalPlayKeepsKingsSafe ==
  /\ (legal /\ MoveSucceeded /\ StartsSafe) =>
        /\ ~KingAttacked(board, last.sideBefore)
        /\ board = returnWirtualProposedBoardAfterMove(last.boardBefore, last.from,
                                                       last.to).proposed
  /\ (legal /\ log # <<>> /\ StartsSafe) =>
        \A piece \in CapturedIn(log) : piece.name # "King"

\* two moves taken from possibleMoves, a capture among them
C18_Witness ==
  /\ StartsSafe /\ legal /\ MoveSucceeded /\ moves = 2
  /\ CapturesIn(log) >= 1
  /\ ~KingAttacked(board, last.sideBefore)

====
